---- MODULE Spec2Model ----
(***************************************************************************)
(* Block extraction of dprint-plugin-vue (src/parser/block.rs): the nom    *)
(* scanners for attribute names, attributes, start tags and end tags, the  *)
(* nesting-aware content scanner and the block assembler.                  *)
(*                                                                         *)
(* A text (&str) is a sequence of characters; a character is a one-letter  *)
(* string and CodePoint gives its Unicode scalar value, on which the       *)
(* character classes of the source are computed.                           *)
(***************************************************************************)
EXTENDS Integers, Sequences, FiniteSets, TLC

----------------------------------------------------------------------------
(* Characters *)

CodePoint ==
    ("\t" :> 9) @@ ("\n" :> 10) @@ ("\f" :> 12) @@ ("\r" :> 13) @@
    (" " :> 32) @@ ("\"" :> 34) @@ ("'" :> 39) @@ ("/" :> 47) @@
    ("<" :> 60) @@ ("=" :> 61) @@ (">" :> 62) @@
    ("L" :> 76) @@ ("S" :> 83) @@ ("T" :> 84) @@
    ("a" :> 97) @@ ("b" :> 98) @@ ("g" :> 103) @@ ("l" :> 108) @@
    ("n" :> 110) @@ ("s" :> 115) @@ ("t" :> 116) @@ ("x" :> 120)

Chars == DOMAIN CodePoint

\* char::is_ascii_whitespace: U+0020, U+0009, U+000A, U+000C, U+000D
char_is_ascii_whitespace(c) == CodePoint[c] \in {32, 9, 10, 12, 13}

\* super::util::is_ascii_whitespace (not part of block.rs)
is_ascii_whitespace(c) == char_is_ascii_whitespace(c)

\* u8::to_ascii_lowercase, as eq_ignore_ascii_case applies it
to_ascii_lowercase(c) ==
    IF CodePoint[c] \in 65..90
    THEN CHOOSE d \in Chars : CodePoint[d] = CodePoint[c] + 32
    ELSE c

eq_ignore_ascii_case(a, b) ==
    /\ Len(a) = Len(b)
    /\ \A i \in 1..Len(a) : to_ascii_lowercase(a[i]) = to_ascii_lowercase(b[i])

----------------------------------------------------------------------------
(* Slices and nom results *)

Take(s, n) == SubSeq(s, 1, n)
Drop(s, n) == SubSeq(s, n + 1, Len(s))

Ok(rest, out) == [ok |-> TRUE, rest |-> rest, out |-> out]
Err(kind) == [ok |-> FALSE, kind |-> kind]

\* take_while / take_till: the length of the longest prefix of s whose
\* characters are all in the set taken
PrefixLen(s, taken) ==
    IF \A i \in 1..Len(s) : s[i] \in taken THEN Len(s)
    ELSE (CHOOSE i \in 1..Len(s) :
             s[i] \notin taken /\ \A j \in 1..(i - 1) : s[j] \in taken) - 1

\* str::find(ch): 0-based offset of the first ch in s, or -1 for None
Find(s, ch) ==
    IF \A i \in 1..Len(s) : s[i] # ch THEN -1
    ELSE (CHOOSE i \in 1..Len(s) : s[i] = ch /\ \A j \in 1..(i - 1) : s[j] # ch) - 1

\* take_while(is_ascii_whitespace): the input after the whitespace run
AsciiWhitespace == {c \in Chars : is_ascii_whitespace(c)}
SkipWhitespace(s) == Drop(s, PrefixLen(s, AsciiWhitespace))

----------------------------------------------------------------------------
(* parse_attribute_name *)

AttributeNameChar(c) ==
    ~ \/ CodePoint[c] \in 127..159
      \/ CodePoint[c] \in {32, 34, 39, 62, 47, 61}
      \/ CodePoint[c] \in 64976..65007
      \/ (CodePoint[c] <= 1114111 /\ CodePoint[c] % 65536 \in {65534, 65535})

\* take_while1: the first n characters, which must be at least one
TakeWhile1(input, n) ==
    IF n = 0 THEN Err("TakeWhile1") ELSE Ok(Drop(input, n), Take(input, n))

AttributeNameChars == {c \in Chars : AttributeNameChar(c)}

parse_attribute_name(input) == TakeWhile1(input, PrefixLen(input, AttributeNameChars))

----------------------------------------------------------------------------
(* parse_attribute *)

None == [some |-> FALSE]
Some(v) == [some |-> TRUE, value |-> v]

\* take_until(q) and char(q) after the opening quote: n is the offset of the
\* closing quote in the text after the opening one, or -1
QuotedUntil(s, n) ==
    IF n < 0 THEN Err("TakeUntil") ELSE Ok(Drop(s, n + 2), SubSeq(s, 2, n + 1))

\* delimited(char(q), take_until(q), char(q))
QuotedValue(s, q) ==
    IF s = <<>> \/ s[1] # q THEN Err("Char") ELSE QuotedUntil(s, Find(Drop(s, 1), q))

\* alt((double quoted, single quoted)), given the result of the first
Alt(first, s) == IF first.ok THEN first ELSE QuotedValue(s, "'")

\* char('='), take_while(is_ascii_whitespace) and the quoted value
EqualsValue(s) ==
    IF s = <<>> \/ s[1] # "=" THEN Err("Char")
    ELSE Alt(QuotedValue(SkipWhitespace(Drop(s, 1)), "\""), SkipWhitespace(Drop(s, 1)))

\* preceded(tuple((ws, char('='), ws)), alt((double quoted, single quoted)))
AttributeValue(s) == EqualsValue(SkipWhitespace(s))

\* pair(name, opt(value)): opt turns a failed value into None after the name
NameAndValue(name, value) ==
    IF value.ok
    THEN Ok(value.rest, <<name.out, Some(value.out)>>)
    ELSE Ok(name.rest, <<name.out, None>>)

AfterName(name) == IF ~name.ok THEN name ELSE NameAndValue(name, AttributeValue(name.rest))

parse_attribute(input) == AfterName(parse_attribute_name(input))

----------------------------------------------------------------------------
(* parse_start_tag *)

TagNameStop(c) == char_is_ascii_whitespace(c) \/ c = "/" \/ c = ">"
TagNameChars == {c \in Chars : ~TagNameStop(c)}

\* many0(preceded(take_while(is_ascii_whitespace), parse_attribute)): the
\* attributes from s on, where a is the result of the first attempt
RECURSIVE Attributes(_), Many0(_, _)
Cons(x, more) == [rest |-> more.rest, out |-> <<x>> \o more.out]

Many0(s, a) ==
    IF ~a.ok THEN [rest |-> s, out |-> <<>>] ELSE Cons(a.out, Attributes(a.rest))

Attributes(s) == Many0(s, parse_attribute(SkipWhitespace(s)))

FindLangLast(attributes) ==
    LET hit == {i \in 1..Len(attributes) :
                   /\ attributes[i][1] = <<"l", "a", "n", "g">>
                   /\ attributes[i][2].some}
    IN  IF hit = {} THEN None
        ELSE Some(attributes[CHOOSE i \in hit : \A j \in hit : i >= j][2].value)

\* find_map over the attributes: the first ("lang", Some(lang))
FindLang(attributes) ==
    LET hit == {i \in 1..Len(attributes) :
                   /\ attributes[i][1] = <<"l", "a", "n", "g">>
                   /\ attributes[i][2].some}
    IN  IF hit = {} THEN None
        ELSE Some(attributes[CHOOSE i \in hit : \A j \in hit : i <= j][2].value)

\* char('>') after the optional `/`
CloseChar(s) == IF s = <<>> \/ s[1] # ">" THEN Err("Char") ELSE Ok(Drop(s, 1), <<>>)

\* opt(char('/')), char('>')
SlashClose(s) == CloseChar(IF s # <<>> /\ s[1] = "/" THEN Drop(s, 1) ELSE s)

\* tuple((take_while(is_ascii_whitespace), opt(char('/')), char('>')))
StartTagClose(s) == SlashClose(SkipWhitespace(s))

\* delimited(...).map(...): the StartTag once the closing `>` is reached
MapStartTag(name, attrs, close) ==
    IF ~close.ok THEN close
    ELSE Ok(close.rest, [name |-> name, lang |-> FindLang(attrs.out)])

NameAndAttributes(name, attrs) == MapStartTag(name, attrs, StartTagClose(attrs.rest))

\* take_till for the name, of length n, and many0 for the attributes
StartTagAfterLt(after, n) == NameAndAttributes(Take(after, n), Attributes(Drop(after, n)))

parse_start_tag(input) ==
    IF input = <<>> \/ input[1] # "<" THEN Err("Char")
    ELSE StartTagAfterLt(Drop(input, 1), PrefixLen(Drop(input, 1), TagNameChars))

----------------------------------------------------------------------------
(* parse_end_tag *)

EndTagNameStop(c) == char_is_ascii_whitespace(c) \/ c = ">"
EndTagNameChars == {c \in Chars : ~EndTagNameStop(c)}

\* tuple((take_while(is_ascii_whitespace), char('>'))) after the name
EndTagClose(name, s) == IF s = <<>> \/ s[1] # ">" THEN Err("Char") ELSE Ok(Drop(s, 1), name)

\* take_till for the name, of length n
EndTagAfterLt(after, n) == EndTagClose(Take(after, n), SkipWhitespace(Drop(after, n)))

parse_end_tag(input) ==
    IF Len(input) < 2 \/ Take(input, 2) # <<"<", "/">> THEN Err("Tag")
    ELSE EndTagAfterLt(Drop(input, 2), PrefixLen(Drop(input, 2), EndTagNameChars))

----------------------------------------------------------------------------
(* parse_tag_content: the scan over the `<` of the input *)

U16Modulus == 65536

\* every end tag taken as a same-named one
ClassifyAnyEndTag(s, name) ==
    LET st == parse_start_tag(s)
        et == parse_end_tag(s)
    IN  IF st.ok
        THEN (IF eq_ignore_ascii_case(st.out.name, name) THEN "same_start" ELSE "other")
        ELSE IF et.ok THEN "same_end"
        ELSE "other"

\* a start tag ending in `/>` not taken as an open
ClassifySelfClosingInert(s, name) ==
    LET st == parse_start_tag(s)
        et == parse_end_tag(s)
    IN  IF st.ok
        THEN (IF /\ eq_ignore_ascii_case(st.out.name, name)
                 /\ s[Len(s) - Len(st.rest) - 1] # "/"
              THEN "same_start" ELSE "other")
        ELSE IF et.ok /\ eq_ignore_ascii_case(et.out, name) THEN "same_end"
        ELSE "other"

\* what the loop body recognises at a `<`, given what parse_start_tag and
\* parse_end_tag return there (lines 137-149)
Recognise(st, et, name) ==
    IF st.ok
    THEN (IF eq_ignore_ascii_case(st.out.name, name) THEN "same_start" ELSE "other")
    ELSE IF et.ok /\ eq_ignore_ascii_case(et.out, name) THEN "same_end"
    ELSE "other"

\* what the loop body recognises at the `<` that starts s
Classify(s, name) == Recognise(parse_start_tag(s), parse_end_tag(s), name)

\* every `<` that is no same-named end tag counted as an open
ScanOutcomesAnyOpen(kind, level) ==
    IF kind = "same_end"
    THEN (IF level = 0
          THEN {[act |-> "return", level |-> level]}
          ELSE {[act |-> "next", level |-> level - 1]})
    ELSE {[act |-> "next", level |-> (level + 1) % U16Modulus]}

\* the loop body's effect on nesting_level (lines 137-149).  `nesting_level += 1`
\* on a u16 holding 65535 panics in a build with overflow checks and wraps to 0
\* in a build without them.
ScanOutcomes(kind, level) ==
    IF kind = "same_start"
    THEN (IF level + 1 < U16Modulus
          THEN {[act |-> "next", level |-> level + 1]}
          ELSE {[act |-> "panic", level |-> level],
                [act |-> "next", level |-> (level + 1) % U16Modulus]})
    ELSE IF kind = "same_end"
    THEN (IF level = 0
          THEN {[act |-> "return", level |-> level]}
          ELSE {[act |-> "next", level |-> level - 1]})
    ELSE {[act |-> "next", level |-> level]}

\* the offset of the next `<` strictly after index, or -1, where n is what
\* input.get((index + 1)..).and_then(|input| input.find('<')) gives (line 151)
NextOffset(index, n) == IF n < 0 THEN -1 ELSE index + n + 1

NextLt(s, index) == NextOffset(index, Find(Drop(s, index + 1), "<"))

Panic == [ok |-> FALSE, kind |-> "panic"]

\* the loop as a whole, in a build without overflow checks: the offset of the
\* `<` at which the scan started at the `<` at index returns, or -1 for Eof
RECURSIVE CloserFrom(_, _, _, _)
CloserAfter(s, name, index, o, next) ==
    IF o.act = "return" THEN index
    ELSE IF next < 0 THEN -1
    ELSE CloserFrom(s, name, next, o.level)

CloserFrom(s, name, index, level) ==
    CloserAfter(s, name, index,
                CHOOSE o \in ScanOutcomes(Classify(Drop(s, index), name), level) :
                    o.act # "panic",
                NextLt(s, index))

\* parse_tag_content(name)(s): the offset its content ends at, or -1 for Eof
Closer(s, name) ==
    IF s = <<>> \/ Find(s, "<") < 0 THEN -1
    ELSE CloserFrom(s, name, Find(s, "<"), 0)

----------------------------------------------------------------------------
(* The inputs *)

MaxFrags == 3
MaxAttrs == 2

RECURSIVE Flatten(_)
Flatten(ss) == IF ss = <<>> THEN <<>> ELSE Head(ss) \o Flatten(Tail(ss))

Concats(frags, n) == {Flatten(f) : f \in UNION {[1..k -> frags] : k \in 0..n}}

\* texts of blocks: an opener, or none, followed by pieces of content
Openers == {<<>>, <<"<", "t", ">">>, <<"<", "t", "/", ">">>}

BlockFrags ==
    { <<"<", "t", ">">>, <<"<", "/", "t", ">">>, <<"<", "/", "T", ">">>,
      <<"<", "t", "/", ">">>, <<"<", "s", ">">>, <<"<">>, <<"\n">>, <<"x">> }

BlockInputs == {o \o b : o \in Openers, b \in Concats(BlockFrags, MaxFrags)}

\* texts of tags: a head, attributes separated by one space, and a tail
TagHeads ==
    { <<>>, <<"<", "t", " ">>, <<"<", "T", "\n">>, <<"<">>, <<"<", " ">>, <<"<", "/">> }

AttrFrags ==
    { <<"l", "a", "n", "g">>,
      <<"x">>,
      <<"l", "a", "n", "g", "=", "\"", "a", "\"">>,
      <<"l", "a", "n", "g", "=", "'", "b", "'">>,
      <<"L", "a", "n", "g", "=", "\"", "a", "\"">>,
      <<"l", "a", "n", "g", " ", "=", " ", "\"", "a", "\"">>,
      <<"l", "a", "n", "g", "\t", "=", "\t", "'", "b", "'">>,
      <<"l", "a", "n", "g", "\n", "=", "\"", "a", "\"">>,
      <<"l", "a", "n", "g", "\f", "=", "\"", "a", "\"">>,
      <<"l", "a", "n", "g", "\r", "=", "\r", "\"", "a", "\"">>,
      <<"x", "=", "\"", "'", "\"">> }

TagTails == { <<>>, <<">">>, <<"/", ">">>, <<" ", ">", "x">> }

RECURSIVE Join(_)
Join(ss) ==
    IF ss = <<>> THEN <<>>
    ELSE IF Len(ss) = 1 THEN Head(ss)
    ELSE Head(ss) \o <<" ">> \o Join(Tail(ss))

TagInputs ==
    {h \o Join(a) \o t : h \in TagHeads,
                         a \in UNION {[1..k -> AttrFrags] : k \in 0..MaxAttrs},
                         t \in TagTails}

\* texts in which a tag name is empty or a `<` lies inside another tag
EdgeInputs ==
    { <<"<", ">", "<", "/", " ", ">">>,
      <<"<", ">", "\n", "x", "<", "/", ">", "<", "/", "\t", ">", "x">>,
      <<"<", "/", ">", "<", "/", " ", ">">>,
      <<"<", " ", "x", ">", "<", "/", " ", ">">>,
      <<"<", "/", "t", "<", ">", "<", "/", "t", ">">>,
      <<"<", "t", "<", ">", "<", "/", "t", ">", "<", "/", "t", ">">>,
      <<"<", "t", ">", "<", "/", "t", "<", ">", "x", "<", "/", "t", ">">> }

TagNames == { <<"t">>, <<"S">> }

----------------------------------------------------------------------------
(* The calls *)

VARIABLES
    input,          \* the text the running call was given
    op,             \* the function called
    pc,             \* "idle", "scan" (in the loop of parse_tag_content),
                    \* "end_tag" (parse_block after the content), "done"
    tag_name,       \* parse_tag_content: the enclosing tag name
    text,           \* parse_tag_content: its input
    index,          \* parse_tag_content: offset of the `<` under examination
    nesting_level,  \* parse_tag_content: the u16 counter
    opens,          \* history: same-named start tags recognised so far
    closes,         \* history: same-named end tags recognised so far
    start,          \* parse_block: (raw_start_tag, start_tag) of the opener
    result          \* the value returned, once pc = "done"

vars == <<input, op, pc, tag_name, text, index, nesting_level, opens, closes, start, result>>

NoResult == [ok |-> FALSE, kind |-> "none"]
NoStart == [raw_start_tag |-> <<>>, start_tag |-> [name |-> <<>>, lang |-> None],
            newline |-> FALSE]

Idle(inputs) ==
    /\ input \in inputs
    /\ op = "none"
    /\ pc = "idle"
    /\ tag_name = <<>>
    /\ text = <<>>
    /\ index = 0
    /\ nesting_level = 0
    /\ opens = 0
    /\ closes = 0
    /\ start = NoStart
    /\ result = NoResult

Return(f, r) ==
    /\ op' = f
    /\ pc' = "done"
    /\ result' = r
    /\ UNCHANGED <<input, tag_name, text, index, nesting_level, opens, closes, start>>

CallParseAttributeName ==
    /\ pc = "idle"
    /\ Return("parse_attribute_name", parse_attribute_name(input))

CallParseAttribute ==
    /\ pc = "idle"
    /\ Return("parse_attribute", parse_attribute(input))

CallParseStartTag ==
    /\ pc = "idle"
    /\ Return("parse_start_tag", parse_start_tag(input))

CallParseEndTag ==
    /\ pc = "idle"
    /\ Return("parse_end_tag", parse_end_tag(input))

\* parse_tag_content up to the loop (lines 127-135): an empty input and an
\* input without `<` fail with Eof, otherwise the loop starts at the first `<`
EnterScan(name, s) ==
    /\ tag_name' = name
    /\ text' = s
    /\ nesting_level' = 0
    /\ opens' = 0
    /\ closes' = 0
    /\ IF s = <<>> \/ Find(s, "<") < 0
       THEN /\ pc' = "done"
            /\ result' = Err("Eof")
            /\ index' = 0
       ELSE /\ pc' = "scan"
            /\ result' = NoResult
            /\ index' = Find(s, "<")

CallParseTagContent ==
    /\ pc = "idle"
    /\ \E name \in TagNames :
          /\ op' = "parse_tag_content"
          /\ EnterScan(name, input)
          /\ UNCHANGED <<input, start>>

\* opt(newline): whether a line feed was taken, and the input after it
OptNewlineNever(s) == [out |-> FALSE, rest |-> s]

OptNewlineAll(s) ==
    LET n == PrefixLen(s, {"\n"})
    IN  [out |-> n > 0, rest |-> Drop(s, n)]

OptNewline(s) ==
    IF s # <<>> /\ s[1] = "\n"
    THEN [out |-> TRUE, rest |-> Drop(s, 1)]
    ELSE [out |-> FALSE, rest |-> s]

\* the entry of parse_tag_content(start_tag.name) after the start tag st and
\* the optional line feed nl
AfterStartTag(st, nl) ==
    /\ op' = "parse_block"
    /\ start' = [raw_start_tag |-> Take(input, Len(input) - Len(st.rest)),
                 start_tag |-> st.out,
                 newline |-> nl.out]
    /\ EnterScan(st.out.name, nl.rest)
    /\ UNCHANGED input

\* flat_map: a failed start tag is the result of parse_block
StartOfBlock(st) ==
    IF ~st.ok THEN Return("parse_block", st) ELSE AfterStartTag(st, OptNewline(st.rest))

\* terminated(consumed(parse_start_tag), opt(newline)) and the content scan
CallParseBlock ==
    /\ pc = "idle"
    /\ StartOfBlock(parse_start_tag(input))

\* one iteration of the loop of parse_tag_content (lines 136-160) at a `<` of
\* the given kind, where next is the offset of the following `<` or -1
LoopBody(kind, next) ==
    /\ opens' = IF kind = "same_start" THEN opens + 1 ELSE opens
    /\ closes' = IF kind = "same_end" THEN closes + 1 ELSE closes
    /\ \E o \in ScanOutcomes(kind, nesting_level) :
          /\ nesting_level' = o.level
          /\ IF o.act = "return"
             THEN /\ result' = Ok(Drop(text, index), Take(text, index))
                  /\ pc' = IF op = "parse_block" THEN "end_tag" ELSE "done"
                  /\ index' = index
             ELSE IF o.act = "panic"
             THEN /\ result' = Panic
                  /\ pc' = "done"
                  /\ index' = index
             ELSE IF next < 0
             THEN /\ result' = Err("Eof")
                  /\ pc' = "done"
                  /\ index' = index
             ELSE /\ result' = NoResult
                  /\ pc' = "scan"
                  /\ index' = next
    /\ UNCHANGED <<input, op, tag_name, text, start>>

ScanStep ==
    /\ pc = "scan"
    /\ LoopBody(Classify(Drop(text, index), tag_name), NextLt(text, index))

\* the Block, or the failure of the end tag
MapBlock(et) ==
    IF ~et.ok THEN et
    ELSE Ok(et.rest,
            [start_tag |-> start.start_tag,
             raw_start_tag |-> start.raw_start_tag,
             raw_end_tag |-> Take(result.rest, Len(result.rest) - Len(et.rest)),
             content |-> result.out])

\* recognize(parse_end_tag) after the content, and the Block (lines 186-192)
BlockEndTag ==
    /\ pc = "end_tag"
    /\ result' = MapBlock(parse_end_tag(result.rest))
    /\ pc' = "done"
    /\ UNCHANGED <<input, op, tag_name, text, index, nesting_level, opens, closes, start>>

Next ==
    \/ CallParseAttributeName
    \/ CallParseAttribute
    \/ CallParseStartTag
    \/ CallParseEndTag
    \/ CallParseTagContent
    \/ CallParseBlock
    \/ ScanStep
    \/ BlockEndTag

\* the calls on texts of blocks
Init == Idle(BlockInputs \cup EdgeInputs)
Spec == Init /\ [][Next]_vars

\* the calls on texts of tags
InitTag == Idle(TagInputs \cup EdgeInputs)
SpecTag == InitTag /\ [][Next]_vars

----------------------------------------------------------------------------
(* The loop of parse_tag_content on a text of any length: the text is left  *)
(* out, and each `<` is of a kind the text could give it.                   *)

MaxDeepOpens == 2
MaxDeepCloses == 1

Kinds == {"same_start", "same_end", "other"}

InitDeep ==
    /\ input = <<>>
    /\ op = "parse_tag_content"
    /\ pc = "scan"
    /\ tag_name = <<"t">>
    /\ text = <<>>
    /\ index = 0
    /\ nesting_level = 0
    /\ opens = 0
    /\ closes = 0
    /\ start = NoStart
    /\ result = NoResult

DeepScanStep ==
    /\ pc = "scan"
    /\ \E kind \in Kinds, next \in {-1, index} :
          /\ kind = "same_start" => opens < U16Modulus + MaxDeepOpens
          /\ kind = "same_end" => closes < MaxDeepCloses
          /\ LoopBody(kind, next)

NextDeep == DeepScanStep

SpecDeep == InitDeep /\ [][NextDeep]_vars

----------------------------------------------------------------------------
(* Properties *)

ScanSucceeded ==
    /\ op \in {"parse_tag_content", "parse_block"}
    /\ pc \in {"end_tag", "done"}
    /\ result.ok

BlockReturned == op = "parse_block" /\ pc = "done" /\ result.ok

\* what parse_tag_content returned: the content and the remainder
ScanResult ==
    IF op = "parse_block" /\ pc = "done"
    THEN [content |-> result.out.content, rest |-> result.out.raw_end_tag \o result.rest]
    ELSE [content |-> result.out, rest |-> result.rest]

\* the loop and the whole-scan operator agree
ScanAgreesWithCloser ==
    /\ ScanSucceeded => Closer(text, tag_name) = index
    /\ (op \in {"parse_tag_content", "parse_block"} /\ pc = "done" /\ result = Err("Eof")
          /\ (op = "parse_block" => start.raw_start_tag # <<>>))
          => Closer(text, tag_name) = -1

\* C1: when the scan succeeds, it stops at a same-named end tag before which it
\* recognised as many same-named start tags as same-named end tags; the
\* content is the text before that `<` and the remainder starts at it.
C1_NestingCorrect ==
    ScanSucceeded =>
        /\ opens + 1 = closes
        /\ ScanResult.content = Take(text, index)
        /\ ScanResult.rest = Drop(text, index)

\* C2: raw_start_tag, a line feed if one was taken after the start tag,
\* content, raw_end_tag and the residual, put together, are the input.
C2_RoundTrip ==
    BlockReturned =>
        result.out.raw_start_tag
            \o (IF start.newline THEN <<"\n">> ELSE <<>>)
            \o result.out.content
            \o result.out.raw_end_tag
            \o result.rest = input

C2_Witness ==
    /\ BlockReturned
    /\ start.newline
    /\ result.rest # <<>>

\* C3: the scan ends in success when it reached a same-named end tag with as
\* many same-named start tags as end tags before it, and in the Eof error in
\* every other case; it ends in nothing else.
C3_UnterminatedEof ==
    (op \in {"parse_tag_content", "parse_block"} /\ pc = "done"
        /\ (op = "parse_block" => start.raw_start_tag # <<>>))
    => IF opens + 1 = closes THEN result.ok ELSE result = Err("Eof")

\* C8: a line feed right after the start tag is taken, exactly that one
\* character, and is no part of raw_start_tag or of content; without one the
\* content starts right after the start tag.
C8_NewlineStripped ==
    (op = "parse_block" /\ start.raw_start_tag # <<>>) =>
        LET n == Len(start.raw_start_tag)
            after == Drop(input, n)
        IN  /\ start.raw_start_tag = Take(input, n)
            /\ start.raw_start_tag[n] = ">"
            /\ start.newline = (after # <<>> /\ after[1] = "\n")
            /\ text = IF after # <<>> /\ after[1] = "\n" THEN Drop(after, 1) ELSE after
            /\ BlockReturned =>
                  result.out.content = Take(text, Len(result.out.content))

C8_Witness ==
    /\ BlockReturned
    /\ start.newline
    /\ result.out.content # <<>>
    /\ result.out.content[1] = "\n"
    /\ result.out.content[Len(result.out.content)] = "\n"

\* C9: after a successful scan the end-tag step succeeds, and the name in
\* raw_end_tag equals start_tag.name up to ASCII case.
C9_EndTagAccepted ==
    /\ pc = "end_tag" =>
          LET et == parse_end_tag(result.rest)
          IN  et.ok /\ eq_ignore_ascii_case(et.out, start.start_tag.name)
    /\ BlockReturned =>
          LET et == parse_end_tag(result.out.raw_end_tag)
          IN  /\ et.ok
              /\ et.rest = <<>>
              /\ eq_ignore_ascii_case(et.out, result.out.start_tag.name)
    /\ (op = "parse_block" /\ pc = "done" /\ ~result.ok /\ start.raw_start_tag # <<>>)
          => result.kind \in {"Eof", "panic"}

C9_Witness ==
    /\ BlockReturned
    /\ parse_end_tag(result.out.raw_end_tag).out # result.out.start_tag.name
    /\ result.out.content # <<>>

\* the attributes parse_start_tag collects from input
StartTagAttributes(s) ==
    LET after == Drop(s, 1)
    IN  Attributes(Drop(after, PrefixLen(after, TagNameChars))).out

Lang == <<"l", "a", "n", "g">>

StartTagReturned == op = "parse_start_tag" /\ pc = "done" /\ result.ok

\* C4 as claimed: lang is the value of the first attribute named `lang`, and
\* no later attribute named `lang` has a part in it.
C4_FirstLangWins ==
    StartTagReturned =>
        LET attrs == StartTagAttributes(input)
            named == {i \in 1..Len(attrs) : attrs[i][1] = Lang}
        IN  result.out.lang =
               IF named = {} THEN None
               ELSE attrs[CHOOSE i \in named : \A j \in named : i <= j][2]

\* C4, amended: lang is the value of the first attribute named `lang` that has
\* a value; attributes named `lang` without a value are passed over, and lang
\* is None when no attribute named `lang` has a value.
C4_FirstLangWithValueWins ==
    StartTagReturned =>
        LET attrs == StartTagAttributes(input)
            IsLang(i) == attrs[i][1] = Lang /\ attrs[i][2].some
        IN  /\ \A i \in 1..Len(attrs) :
                  (IsLang(i) /\ \A j \in 1..(i - 1) : ~IsLang(j))
                      => result.out.lang = attrs[i][2]
            /\ (\A i \in 1..Len(attrs) : ~IsLang(i)) => result.out.lang = None

C4_Witness ==
    /\ StartTagReturned
    /\ LET attrs == StartTagAttributes(input)
       IN  /\ Len(attrs) = 2
           /\ attrs[1][1] = Lang /\ attrs[2][1] = Lang
           /\ attrs[1][2].some /\ attrs[2][2].some
           /\ attrs[1][2] # attrs[2][2]
           /\ result.out.lang = attrs[1][2]

\* C5: parse_start_tag fails when the character after `<` is ASCII whitespace,
\* `/` or `>`, and the name of every StartTag returned, by parse_start_tag or in
\* a Block, is not empty.
C5_EmptyNameFails ==
    /\ (op = "parse_start_tag" /\ pc = "done" /\ Len(input) >= 2
          /\ input[1] = "<" /\ TagNameStop(input[2])) => ~result.ok
    /\ StartTagReturned => result.out.name # <<>>
    /\ BlockReturned => result.out.start_tag.name # <<>>

\* C6: on a name, ASCII whitespace, `=`, ASCII whitespace and a quoted value,
\* parse_attribute returns the name before the whitespace with the value
\* between the quotes, and the remainder starts after the closing quote.
NameCharsNotWhitespace ==
    {c \in Chars : AttributeNameChar(c) /\ ~char_is_ascii_whitespace(c)}

C6_AttributeWithValue ==
    (op = "parse_attribute" /\ pc = "done") =>
        LET n == PrefixLen(input, NameCharsNotWhitespace)
            v == AttributeValue(Drop(input, n))
        IN  (n > 0 /\ v.ok) => result = Ok(v.rest, <<Take(input, n), Some(v.out)>>)

----------------------------------------------------------------------------
LtOffsets(s) == {i \in 0..(Len(s) - 1) : s[i + 1] = "<"}

RemoveAt(s, p) == Take(s, p) \o Drop(s, p + 1)

InertAt(s, i, name) == Classify(Drop(s, i), name) = "other"

\* the scan of s without the character at offset p stops at the same end tag
\* as the scan of s, or both fail
SameCloser(s, p, name) ==
    LET c1 == Closer(s, name)
        c2 == Closer(RemoveAt(s, p), name)
    IN  IF c1 < 0 THEN c2 < 0
        ELSE c2 = IF c1 > p THEN c1 - 1 ELSE c1

\* every `<` of s but the one at offset p is recognised alike in s and in s
\* without the character at p
OthersUnchanged(s, p, name) ==
    \A j \in LtOffsets(s) \ {p} :
        Classify(Drop(s, j), name)
            = Classify(Drop(RemoveAt(s, p), IF j > p THEN j - 1 ELSE j), name)

\* at a `<` that is no same-named tag the iteration changes no count and goes
\* on to the next `<` strictly after it, or fails with Eof when there is none
InertStep ==
    /\ nesting_level' = nesting_level
    /\ opens' = opens
    /\ closes' = closes
    /\ IF \E j \in LtOffsets(text) : j > index
       THEN /\ pc' = "scan"
            /\ result' = NoResult
            /\ index' > index
            /\ index' \in LtOffsets(text)
            /\ \A j \in LtOffsets(text) : j > index => index' <= j
       ELSE /\ pc' = "done"
            /\ result' = Err("Eof")

\* C7 as claimed: a `<` that is no same-named tag leaves nesting_level alone,
\* the scan goes on at the next `<`, and the text without that `<` has the
\* same closer.
C7_InertLtRemovable ==
    [][(pc = "scan" /\ InertAt(text, index, tag_name))
          => (InertStep /\ SameCloser(text, index, tag_name))]_vars

\* C7, amended: the same, where the text without that `<` has the same closer
\* provided every other `<` is recognised as before.
C7_InertLt ==
    [][(pc = "scan" /\ InertAt(text, index, tag_name))
          => /\ InertStep
             /\ OthersUnchanged(text, index, tag_name)
                   => SameCloser(text, index, tag_name)]_vars

C7_Witness ==
    /\ pc = "scan"
    /\ InertAt(text, index, tag_name)
    /\ nesting_level > 0
    /\ OthersUnchanged(text, index, tag_name)
    /\ Closer(text, tag_name) > index

----------------------------------------------------------------------------
\* the start tag at the `<` at offset i of s ends in `/>`
Consumed(s, i) == Len(s) - i - Len(parse_start_tag(Drop(s, i)).rest)
SelfClosingAt(s, i) ==
    /\ i < Len(s)
    /\ parse_start_tag(Drop(s, i)).ok
    /\ s[i + Consumed(s, i) - 1] = "/"
SlashOffset(s, i) == i + Consumed(s, i) - 2

\* C10: a start tag ending in `/>` is parsed and counted as the same tag
\* ending in `>`: in the content it is a same-named open like any other, and as
\* the opener of a block it still has the scan look for the end tag.
C10_SelfClosingIgnored ==
    /\ (pc = "scan" /\ SelfClosingAt(text, index)) =>
          LET p == SlashOffset(text, index)
              plain == RemoveAt(text, p)
          IN  /\ parse_start_tag(Drop(plain, index)) = parse_start_tag(Drop(text, index))
              /\ Classify(Drop(plain, index), tag_name)
                    = Classify(Drop(text, index), tag_name)
              /\ Classify(Drop(text, index), tag_name) = "same_start"
                    => SameCloser(text, p, tag_name)
    /\ (op = "parse_start_tag" /\ pc = "done" /\ SelfClosingAt(input, 0)) =>
          parse_start_tag(RemoveAt(input, SlashOffset(input, 0))) = result
    /\ (op = "parse_block" /\ start.raw_start_tag # <<>> /\ SelfClosingAt(input, 0)) =>
          /\ parse_start_tag(RemoveAt(input, SlashOffset(input, 0))) = parse_start_tag(input)
          /\ pc = "done" =>
                /\ result.ok = (Closer(text, tag_name) >= 0)
                /\ result.ok => (closes >= 1 /\ result.out.raw_end_tag # <<>>)
                /\ ~result.ok => result = Err("Eof")

C10_Witness ==
    /\ op = "parse_block"
    /\ SelfClosingAt(input, 0)
    /\ pc = "scan"
    /\ SelfClosingAt(text, index)
    /\ Classify(Drop(text, index), tag_name) = "same_start"
    /\ Closer(text, tag_name) > index

====
